---- MODULE Spec2Model ----
(***************************************************************************)
(* Model of the payslip selector (src/unnamed/part_001):                   *)
(* analysisToFicheDePaie and the functions it is built from.               *)
(*                                                                         *)
(* Conventions for JavaScript values:                                      *)
(*  - an object is a function from the keys it defines; a key that is not  *)
(*    in its DOMAIN reads as undefined;                                    *)
(*  - an array is a sequence; an array element that is undefined is an     *)
(*    index past the end of the tuple (<<b>> is the pair [b, undefined]);  *)
(*  - a nullable argument is Null (<<>>) or <<object>>;                    *)
(*  - a call that may throw yields [err |-> ..., val |-> ...];             *)
(*  - a string built by concatenation is the sequence of its fragments.    *)
(***************************************************************************)
EXTENDS Integers, Sequences, FiniteSets, TLC

VARIABLES
    analysis,          \* argument `analysis` (Null or <<Analysis>>)
    flatRules,         \* argument `flatRules` (Null or <<catalog>>)
    pc,                \* position in analysisToFicheDePaie
    variables,         \* analysisToCotisations: the extracted raw variables
    fusionnees,        \* analysisToCotisations: merged cotisations, before the filter
    cotisations,       \* local `cotisations` (<<>> until computed)
    montants,          \* amounts resolved so far by règleAvecMontant, in call order
    totalCotisations,  \* local `totalCotisations`
    fiche,             \* returned FicheDePaie (<<>> until returned, then <<fiche>>)
    error,             \* the exception that ended the call, if any
    lookups,           \* dotted names looked up in the analysis by règleAvecMontantSelector
    requested          \* dotted names passed to the rule lookup (règleLocaliséeSelector)

vars == <<analysis, flatRules, pc, variables, fusionnees, cotisations, montants,
          totalCotisations, fiche, error, lookups, requested>>

----------------------------------------------------------------------------
(* Bounds of the model *)

\* longest list of child variables under the two aggregates together
MaxVars == 2
\* longest analysis.targets
MaxTargets == 2
\* longest list of child variables when three names share the buckets
MaxOrderVars == 3

----------------------------------------------------------------------------
(* JavaScript helpers *)

Null == <<>>
Undefined == "undefined"
EmptyObject == [k \in {} |-> Undefined]

NoError == [kind |-> "none", dottedName |-> ""]
Ok(v) == [err |-> NoError, val |-> v]
Throw(kind, dottedName) == [err |-> [kind |-> kind, dottedName |-> dottedName], val |-> Null]
Failed(r) == r.err.kind # "none"

\* Boolean(x) on the leaf strings read by the selectors
Boolean(x) == x \notin {Undefined, ""}

\* ramda pathOr(d, p, obj): obj[p[1]][p[2]]..., d when a key on the way is missing
RECURSIVE pathOr(_, _, _)
pathOr(d, p, obj) ==
    IF Len(p) = 0 THEN obj
    ELSE IF Head(p) \in DOMAIN obj THEN pathOr(d, Tail(p), obj[Head(p)])
    ELSE d

\* ramda path(p, obj)
path(p, obj) == pathOr(Undefined, p, obj)

\* ramda mergeWith(add, a, b)
mergeWithAdd(a, b) ==
    [k \in DOMAIN a \cup DOMAIN b |->
        IF k \in DOMAIN a /\ k \in DOMAIN b THEN a[k] + b[k]
        ELSE IF k \in DOMAIN b THEN b[k] ELSE a[k]]

----------------------------------------------------------------------------
(* Constants of the program *)

COTISATION_BRANCHE_ORDER ==
    << "santé",
       "accidents du travail / maladies professionnelles",
       "retraite",
       "famille",
       "assurance chômage",
       "logement",
       "autres" >>

BLANK_COTISATION ==
    [ montant |-> [partPatronale |-> 0, partSalariale |-> 0],
      nom |-> "ERROR_SHOULD_BE_INSTANCIATED",
      lien |-> <<"ERROR_SHOULD_BE_INSTANCIATED">>,
      branche |-> "autres" ]

SALARIALES == "contrat salarié . cotisations salariales"
PATRONALES == "contrat salarié . cotisations patronales"
REDUCTIONS == "contrat salarié . réductions de cotisations"
BRUT_DE_BASE == "contrat salarié . salaire . brut de base"
AVANTAGES == "contrat salarié . avantages en nature . montant"
BRUT == "contrat salarié . salaire . brut"
TOTAL == "contrat salarié . salaire . total"
NET == "contrat salarié . salaire . net"
NET_IMPOSABLE == "contrat salarié . salaire . net imposable"
NET_A_PAYER == "contrat salarié . salaire . net à payer"

\* the règleAvecMontant calls of analysisToFicheDePaie, in evaluation order
MontantCalls ==
    << [field |-> "cotisationsSalariales", dottedName |-> SALARIALES],
       [field |-> "cotisationsPatronales", dottedName |-> PATRONALES],
       [field |-> "réductionsDeCotisations", dottedName |-> REDUCTIONS],
       [field |-> "salaireDeBase", dottedName |-> BRUT_DE_BASE],
       [field |-> "avantagesEnNature", dottedName |-> AVANTAGES],
       [field |-> "salaireBrut", dottedName |-> BRUT],
       [field |-> "salaireChargé", dottedName |-> TOTAL],
       [field |-> "salaireNet", dottedName |-> NET],
       [field |-> "salaireNetImposable", dottedName |-> NET_IMPOSABLE],
       [field |-> "salaireNetàPayer", dottedName |-> NET_A_PAYER] >>

\* the calls made before totalCotisations is computed (lines 231-233)
CallsBeforeTotal == {i \in 1..Len(MontantCalls) :
    MontantCalls[i].dottedName \in {SALARIALES, PATRONALES, REDUCTIONS}}

----------------------------------------------------------------------------
(* Selectors on a raw variable *)

DuParPaths ==
    << <<"cotisation", "dû par">>,
       <<"taxe", "dû par">>,
       <<"explanation", "cotisation", "dû par">>,
       <<"explanation", "taxe", "dû par">> >>

BranchePaths ==
    << <<"cotisation", "branche">>,
       <<"taxe", "branche">>,
       <<"explanation", "cotisation", "branche">>,
       <<"explanation", "taxe", "branche">> >>

duParSelector_lastDefined(variable) ==
    LET dusPar == [i \in 1..Len(DuParPaths) |-> path(DuParPaths[i], variable)]
        kept == SelectSeq(dusPar, Boolean)
    IN  IF Len(kept) = 0 THEN Undefined ELSE kept[Len(kept)]

duParSelector(variable) ==
    LET dusPar == [i \in 1..Len(DuParPaths) |-> path(DuParPaths[i], variable)]
        kept == SelectSeq(dusPar, Boolean)
    IN  IF Len(kept) = 0 THEN Undefined ELSE kept[1]

brancheSelector_lastDefined(variable) ==
    LET branches == [i \in 1..Len(BranchePaths) |-> path(BranchePaths[i], variable)]
        kept == SelectSeq(branches, Boolean)
    IN  IF Len(kept) = 0 THEN "autres" ELSE kept[Len(kept)]

brancheSelector(variable) ==
    LET branches == [i \in 1..Len(BranchePaths) |-> path(BranchePaths[i], variable)]
        kept == SelectSeq(branches, Boolean)
    IN  IF Len(kept) = 0 THEN "autres" ELSE kept[1]

----------------------------------------------------------------------------
(* Rule lookup *)

\* Engine/rules findRuleByDottedName: the rule of that name, undefined if none
findRuleByDottedName(rules, dottedName) ==
    IF dottedName \in DOMAIN rules THEN <<rules[dottedName]>> ELSE Null

\* Engine/rules encodeRuleName: an encoding of the name, one per name
encodeRuleName(dottedName) == <<"encodeRuleName:", dottedName>>

\* règleLocaliséeSelector(localizedFlatRules)(dottedName)
regleLocaliseeSelector(localizedFlatRules, dottedName) ==
    IF localizedFlatRules = Null
    THEN Throw("MissingRuleCatalog", "")
    ELSE LET localizedRule == findRuleByDottedName(localizedFlatRules[1], dottedName)
         IN  IF localizedFlatRules = Null
             THEN Throw("RuleNotFound", dottedName)
             ELSE IF localizedRule = Null
             THEN Throw("TypeError", "")      \* localizedRule.titre on undefined
             ELSE Ok([ nom |-> IF "titre" \in DOMAIN localizedRule[1]
                                    /\ Boolean(localizedRule[1].titre)
                               THEN localizedRule[1].titre
                               ELSE localizedRule[1].nom,
                       lien |-> <<"/règle/">> \o encodeRuleName(dottedName) ])

----------------------------------------------------------------------------
(* Cotisations *)

mergeCotisations_overwrite(a, b) ==
    [k \in DOMAIN a \cup DOMAIN b |->
        IF k \in DOMAIN a /\ k \in DOMAIN b /\ k = "montant"
        THEN [part \in DOMAIN a[k] \cup DOMAIN b[k] |->
                 IF part \in DOMAIN b[k] THEN b[k][part] ELSE a[k][part]]
        ELSE IF k \in DOMAIN b THEN b[k] ELSE a[k]]

mergeCotisations_keepLeft(a, b) ==
    [k \in DOMAIN a \cup DOMAIN b |->
        IF k \in DOMAIN a /\ k \in DOMAIN b
        THEN (IF k = "montant" THEN mergeWithAdd(a[k], b[k]) ELSE a[k])
        ELSE IF k \in DOMAIN b THEN b[k] ELSE a[k]]

\* mergeWithKey((key, a, b) => key === 'montant' ? mergeWith(add, a, b) : b)
mergeCotisations(a, b) ==
    [k \in DOMAIN a \cup DOMAIN b |->
        IF k \in DOMAIN a /\ k \in DOMAIN b
        THEN (IF k = "montant" THEN mergeWithAdd(a[k], b[k]) ELSE b[k])
        ELSE IF k \in DOMAIN b THEN b[k] ELSE a[k]]

\* variableToCotisation(règleLocaliséeSelector)(variable)
variableToCotisation(localizedFlatRules, variable) ==
    LET regle == regleLocaliseeSelector(localizedFlatRules, variable.dottedName)
        part == IF duParSelector(variable) = "salarié"
                THEN "partSalariale" ELSE "partPatronale"
    IN  IF Failed(regle) THEN regle
        ELSE Ok(mergeCotisations(BLANK_COTISATION,
                    [ nom |-> regle.val.nom,
                      lien |-> regle.val.lien,
                      branche |-> brancheSelector(variable),
                      montant |-> (part :> variable.nodeValue) ]))

RECURSIVE cotisationsMap_append(_, _)
cotisationsMap_append(acc, cs) ==
    IF Len(cs) = 0 THEN acc
    ELSE LET cotisation == Head(cs)
             bucket == IF cotisation.branche \in DOMAIN acc
                       THEN acc[cotisation.branche] ELSE <<>>
         IN  cotisationsMap_append(
                [b \in DOMAIN acc \cup {cotisation.branche} |->
                    IF b = cotisation.branche THEN Append(bucket, cotisation) ELSE acc[b]],
                Tail(cs))

\* the reduce of groupByBranche: each cotisation is put at the head of its bucket
RECURSIVE cotisationsMap(_, _)
cotisationsMap(acc, cs) ==
    IF Len(cs) = 0 THEN acc
    ELSE LET cotisation == Head(cs)
             bucket == IF cotisation.branche \in DOMAIN acc
                       THEN acc[cotisation.branche] ELSE <<>>
         IN  cotisationsMap(
                [b \in DOMAIN acc \cup {cotisation.branche} |->
                    IF b = cotisation.branche THEN <<cotisation>> \o bucket ELSE acc[b]],
                Tail(cs))

groupByBranche_dataDriven(cs) ==
    LET m == cotisationsMap(EmptyObject, cs)
        present == SelectSeq(COTISATION_BRANCHE_ORDER, LAMBDA b : b \in DOMAIN m)
    IN  [i \in 1..Len(present) |-> <<present[i], m[present[i]]>>]

groupByBranche(cs) ==
    LET m == cotisationsMap(EmptyObject, cs)
    IN  [i \in 1..Len(COTISATION_BRANCHE_ORDER) |->
            LET branche == COTISATION_BRANCHE_ORDER[i]
            IN  IF branche \in DOMAIN m THEN <<branche, m[branche]>> ELSE <<branche>>]

\* the filter of analysisToCotisations
nonZero_orEqual(cotisation) ==
    cotisation.montant.partPatronale # 0 \/ cotisation.montant.partSalariale = 0

nonZero(cotisation) ==
    cotisation.montant.partPatronale # 0 \/ cotisation.montant.partSalariale # 0

ExplanationPath == <<"explanation", "formule", "explanation", "explanation">>

\* lines 161-167: the children of the two aggregates, concatenated
extractVariables(a) ==
    LET names == <<SALARIALES, PATRONALES>>
        children == [i \in 1..Len(names) |->
                        IF names[i] \in DOMAIN a.cache
                        THEN pathOr(<<>>, ExplanationPath, a.cache[names[i]])
                        ELSE <<>>]
    IN  children[1] \o children[2]

\* the keys of groupBy(prop('dottedName')), in order of first occurrence
RECURSIVE groupKeys(_, _)
groupKeys(seen, vs) ==
    IF Len(vs) = 0 THEN seen
    ELSE groupKeys(IF \E i \in 1..Len(seen) : seen[i] = Head(vs).dottedName
                   THEN seen ELSE Append(seen, Head(vs).dottedName),
                   Tail(vs))

\* pipe(groupBy(prop('dottedName')), values)
groupByDottedName(vs) ==
    LET keys == groupKeys(<<>>, vs)
    IN  [i \in 1..Len(keys) |-> SelectSeq(vs, LAMBDA v : v.dottedName = keys[i])]

RECURSIVE flatten(_)
flatten(groups) ==
    IF Len(groups) = 0 THEN <<>> ELSE Head(groups) \o flatten(Tail(groups))

\* reduce(mergeCotisations, acc)
RECURSIVE reduceMerge(_, _)
reduceMerge(acc, cs) ==
    IF Len(cs) = 0 THEN acc
    ELSE reduceMerge(mergeCotisations(acc, Head(cs)), Tail(cs))

\* analysisToCotisations(analysis, règleLocaliséeSelector); the result also
\* carries the extracted variables, the merged list before the filter and
\* the names it asked the rule lookup for, up to the first one that threw
analysisToCotisations(analysisArg, localizedFlatRules) ==
    IF analysisArg = Null
    THEN [ err |-> Throw("TypeError", "").err,       \* analysis.cache on null
           variables |-> <<>>, requested |-> <<>>,
           fusionnees |-> <<>>, cotisations |-> <<>> ]
    ELSE
    LET vs == extractVariables(analysisArg[1])
        groups == groupByDottedName(vs)
        order == flatten(groups)
        failing == {i \in 1..Len(order) :
                        Failed(variableToCotisation(localizedFlatRules, order[i]))}
    IN  IF failing # {}
        THEN LET first == CHOOSE i \in failing : \A j \in failing : i <= j
             IN  [ err |-> variableToCotisation(localizedFlatRules, order[first]).err,
                   variables |-> vs,
                   requested |-> [i \in 1..first |-> order[i].dottedName],
                   fusionnees |-> <<>>, cotisations |-> <<>> ]
        ELSE LET merged == [g \in 1..Len(groups) |->
                    reduceMerge(BLANK_COTISATION,
                        [i \in 1..Len(groups[g]) |->
                            variableToCotisation(localizedFlatRules, groups[g][i]).val])]
             IN  [ err |-> NoError,
                   variables |-> vs,
                   requested |-> [i \in 1..Len(order) |-> order[i].dottedName],
                   fusionnees |-> merged,
                   cotisations |-> groupByBranche(SelectSeq(merged, nonZero)) ]

----------------------------------------------------------------------------
(* Amounts *)

findInAnalysis_targetsFirst(a, dottedName) ==
    LET matching == SelectSeq(a.targets, LAMBDA t : t.dottedName = dottedName)
    IN  IF Len(matching) > 0 THEN <<matching[1]>>
        ELSE IF dottedName \in DOMAIN a.cache THEN <<a.cache[dottedName]>>
        ELSE Null

\* analysis.cache[dottedName] || analysis.targets.find(...): Null when neither
findInAnalysis(a, dottedName) ==
    LET matching == SelectSeq(a.targets, LAMBDA t : t.dottedName = dottedName)
    IN  IF dottedName \in DOMAIN a.cache THEN <<a.cache[dottedName]>>
        ELSE IF Len(matching) > 0 THEN <<matching[1]>>
        ELSE Null

\* rule.nodeValue || 0
nodeValueOrZero(rule) ==
    IF "nodeValue" \in DOMAIN rule /\ rule.nodeValue # 0 THEN rule.nodeValue ELSE 0

\* règleAvecMontantSelector(analysis, règleLocaliséeSelector)(dottedName)
regleAvecMontantSelector(analysisArg, localizedFlatRules, dottedName) ==
    IF analysisArg = Null
    THEN Throw("MissingAnalysis", "")
    ELSE LET rule == findInAnalysis(analysisArg[1], dottedName)
         IN  IF rule = Null
             THEN Throw("RuleNotFoundInAnalysis", dottedName)
             ELSE LET regle == regleLocaliseeSelector(localizedFlatRules, dottedName)
                  IN  IF Failed(regle) THEN regle
                      ELSE Ok([ nom |-> regle.val.nom,
                                lien |-> regle.val.lien,
                                montant |-> nodeValueOrZero(rule[1]) ])

FieldIndex(field) == CHOOSE i \in 1..Len(MontantCalls) : MontantCalls[i].field = field

totalOf_reduceBoth(cotisationsSalariales, cotisationsPatronales, reductionsDeCotisations) ==
    [ partPatronale |-> cotisationsPatronales.montant - reductionsDeCotisations.montant,
      partSalariale |-> cotisationsSalariales.montant - reductionsDeCotisations.montant ]

\* lines 234-237
totalOf(cotisationsSalariales, cotisationsPatronales, reductionsDeCotisations) ==
    [ partPatronale |-> cotisationsPatronales.montant - reductionsDeCotisations.montant,
      partSalariale |-> cotisationsSalariales.montant ]

----------------------------------------------------------------------------
(* analysisToFicheDePaie, one action per statement *)

\* line 230 (lines 228-229 only build the two closures)
AnalysisToCotisations ==
    /\ pc = "cotisations"
    /\ LET r == analysisToCotisations(analysis, flatRules)
       IN  /\ variables' = r.variables
           /\ requested' = requested \o r.requested
           /\ fusionnees' = r.fusionnees
           /\ cotisations' = r.cotisations
           /\ error' = r.err
           /\ pc' = IF r.err.kind # "none" THEN "thrown" ELSE "montant"
    /\ UNCHANGED <<analysis, flatRules, montants, totalCotisations, fiche, lookups>>

\* lines 231-233 and 239-262: the next règleAvecMontant(...) call
RegleAvecMontant ==
    /\ pc = "montant"
    /\ LET i == Len(montants) + 1
           dottedName == MontantCalls[i].dottedName
           r == regleAvecMontantSelector(analysis, flatRules, dottedName)
           found == analysis # Null /\ findInAnalysis(analysis[1], dottedName) # Null
       IN  /\ lookups' = IF analysis # Null THEN Append(lookups, dottedName) ELSE lookups
           /\ requested' = IF found THEN Append(requested, dottedName) ELSE requested
           /\ IF Failed(r)
              THEN /\ error' = r.err
                   /\ pc' = "thrown"
                   /\ UNCHANGED montants
              ELSE /\ montants' = Append(montants, r.val)
                   /\ pc' = IF i = Cardinality(CallsBeforeTotal) THEN "total"
                            ELSE IF i = Len(MontantCalls) THEN "return"
                            ELSE "montant"
                   /\ UNCHANGED error
    /\ UNCHANGED <<analysis, flatRules, variables, fusionnees, cotisations,
                   totalCotisations, fiche>>

\* lines 234-237
TotalCotisations ==
    /\ pc = "total"
    /\ totalCotisations' = totalOf(montants[FieldIndex("cotisationsSalariales")],
                                   montants[FieldIndex("cotisationsPatronales")],
                                   montants[FieldIndex("réductionsDeCotisations")])
    /\ pc' = "montant"
    /\ UNCHANGED <<analysis, flatRules, variables, fusionnees, cotisations, montants,
                   fiche, error, lookups, requested>>

\* line 238: the returned record
Return ==
    /\ pc = "return"
    /\ fiche' = << [ salaireDeBase |-> montants[FieldIndex("salaireDeBase")],
                     avantagesEnNature |-> montants[FieldIndex("avantagesEnNature")],
                     salaireBrut |-> montants[FieldIndex("salaireBrut")],
                     cotisations |-> cotisations,
                     reductionsDeCotisations |-> montants[FieldIndex("réductionsDeCotisations")],
                     totalCotisations |-> totalCotisations,
                     salaireCharge |-> montants[FieldIndex("salaireChargé")],
                     salaireNet |-> montants[FieldIndex("salaireNet")],
                     salaireNetImposable |-> montants[FieldIndex("salaireNetImposable")],
                     salaireNetAPayer |-> montants[FieldIndex("salaireNetàPayer")] ] >>
    /\ pc' = "done"
    /\ UNCHANGED <<analysis, flatRules, variables, fusionnees, cotisations, montants,
                   totalCotisations, error, lookups, requested>>

Next == AnalysisToCotisations \/ RegleAvecMontant \/ TotalCotisations \/ Return

----------------------------------------------------------------------------
(* Inputs *)

V1 == "contrat salarié . vieillesse"
V2 == "contrat salarié . FNAL"
V3 == "contrat salarié . maladie"

FixedNames == {MontantCalls[i].dottedName : i \in 1..Len(MontantCalls)}
AllNames == FixedNames \cup {V1, V2, V3}

SeqsUpTo(S, n) == UNION {[1..k -> S] : k \in 0..n}

\* a key with its value, or no key at all when the value is undefined
Field(key, value) == IF value = Undefined THEN EmptyObject ELSE (key :> value)

\* a catalog holding every name but those of `missing`
Catalog(missing) ==
    [d \in AllNames \ missing |->
        IF d = V1 THEN [nom |-> d, titre |-> "Vieillesse"] ELSE [nom |-> d]]

\* an evaluated node: valueObj is {} or {nodeValue}; children is Null (no
\* explanation at all) or <<list of child variables>>
Node(valueObj, children) ==
    IF children = Null THEN valueObj
    ELSE valueObj @@
         [explanation |-> [formule |-> [explanation |-> [explanation |-> children[1]]]]]

\* a raw variable whose payer and branch are given by its own `cotisation`
SimpleVariable(dottedName, nodeValue, duPar, branche) ==
    [ category |-> "variable",
      dottedName |-> dottedName,
      nodeValue |-> nodeValue,
      cotisation |-> Field("dû par", duPar) @@ Field("branche", branche),
      explanation |-> [cotisation |-> EmptyObject, taxe |-> EmptyObject] ]

SimpleVariables ==
    {SimpleVariable(d, v, p, b) :
        d \in {V1, V2}, v \in {-1, 0, 1},
        p \in {"salarié", "employeur"}, b \in {"retraite", Undefined}}

\* a raw variable with every fallback path free; `taxe` is left out when it
\* would be empty
FullVariable(nodeValue, dp, br) ==
    LET taxe == Field("dû par", dp[2]) @@ Field("branche", br[2])
    IN  [ category |-> "variable",
          dottedName |-> V1,
          nodeValue |-> nodeValue,
          cotisation |-> Field("dû par", dp[1]) @@ Field("branche", br[1]),
          explanation |->
            [ cotisation |-> Field("dû par", dp[3]) @@ Field("branche", br[3]),
              taxe |-> Field("dû par", dp[4]) @@ Field("branche", br[4]) ] ]
        @@ (IF taxe = EmptyObject THEN EmptyObject ELSE [taxe |-> taxe])

FullVariables ==
    {FullVariable(v, dp, br) :
        v \in {-1, 2},
        dp \in [1..Len(DuParPaths) -> {Undefined, "salarié", "employeur"}],
        br \in [1..Len(BranchePaths) -> {Undefined, "retraite", "logement"}]}

\* the cache entries of the seven plain salary lines
SalaryCache(missing) ==
    [d \in (FixedNames \ {SALARIALES, PATRONALES, REDUCTIONS}) \ missing |->
        IF d = BRUT THEN [nodeValue |-> 2000] ELSE [nodeValue |-> 1500]]

InitLocals ==
    /\ pc = "cotisations"
    /\ variables = <<>>
    /\ fusionnees = <<>>
    /\ cotisations = <<>>
    /\ montants = <<>>
    /\ totalCotisations = [partPatronale |-> 0, partSalariale |-> 0]
    /\ fiche = <<>>
    /\ error = NoError
    /\ lookups = <<>>
    /\ requested = <<>>

\* Any analysis (or none) and any catalog (or none): the three aggregates may
\* be missing from the cache, valueless or zero, and may be found in targets
Init ==
    /\ flatRules \in {Null, <<Catalog({})>>, <<Catalog({V1})>>, <<Catalog({NET})>>}
    /\ analysis \in {Null} \cup
         { << [ cache |-> sal @@ pat @@ red @@ SalaryCache(missing),
                targets |-> targets ] >> :
             sal \in {EmptyObject} \cup
                     {(SALARIALES :> Node(v, c)) :
                        v \in {EmptyObject, [nodeValue |-> 0], [nodeValue |-> 40]},
                        c \in {Null, << <<SimpleVariable(V1, 100, "salarié", "retraite")>> >>}},
             pat \in {EmptyObject,
                      (PATRONALES :> Node([nodeValue |-> 100], Null)),
                      (PATRONALES :> Node([nodeValue |-> 100],
                          << <<SimpleVariable(V1, 300, "employeur", "retraite")>> >>))},
             red \in {EmptyObject, (REDUCTIONS :> [nodeValue |-> 15])},
             missing \in {{}, {NET}},
             targets \in SeqsUpTo([dottedName : {SALARIALES, REDUCTIONS},
                                   nodeValue : {0, 7}], MaxTargets) }
    /\ InitLocals

Spec == Init /\ [][Next]_vars

\* Every list of at most MaxVars child variables, split in every way between
\* the two aggregates; everything else is present
InitCotisations ==
    /\ flatRules = <<Catalog({})>>
    /\ \E all \in SeqsUpTo(SimpleVariables, MaxVars) : \E cut \in 0..Len(all) :
         analysis =
           << [ cache |->
                  (SALARIALES :> Node([nodeValue |-> 40], <<SubSeq(all, 1, cut)>>))
                  @@ (PATRONALES :> Node([nodeValue |-> 100],
                                         <<SubSeq(all, cut + 1, Len(all))>>))
                  @@ (REDUCTIONS :> [nodeValue |-> 15])
                  @@ SalaryCache({}),
                targets |-> <<>> ] >>
    /\ InitLocals

SpecCotisations == InitCotisations /\ [][Next]_vars

\* One child variable, with every combination of the fallback paths
InitVariable ==
    /\ flatRules = <<Catalog({})>>
    /\ \E variable \in FullVariables :
         analysis =
           << [ cache |->
                  (SALARIALES :> Node([nodeValue |-> 40], << <<variable>> >>))
                  @@ (PATRONALES :> Node([nodeValue |-> 100], Null))
                  @@ (REDUCTIONS :> [nodeValue |-> 15])
                  @@ SalaryCache({}),
                targets |-> <<>> ] >>
    /\ InitLocals

SpecVariable == InitVariable /\ [][Next]_vars

\* Every list of at most MaxOrderVars non-zero child variables over three
\* names and two branches, split in every way between the two aggregates
OrderVariables ==
    {SimpleVariable(d, 1, "salarié", b) :
        d \in {V1, V2, V3}, b \in {"retraite", Undefined}}

InitOrder ==
    /\ flatRules = <<Catalog({})>>
    /\ \E all \in SeqsUpTo(OrderVariables, MaxOrderVars) : \E cut \in 0..Len(all) :
         analysis =
           << [ cache |->
                  (SALARIALES :> Node([nodeValue |-> 40], <<SubSeq(all, 1, cut)>>))
                  @@ (PATRONALES :> Node([nodeValue |-> 100],
                                         <<SubSeq(all, cut + 1, Len(all))>>))
                  @@ (REDUCTIONS :> [nodeValue |-> 15])
                  @@ SalaryCache({}),
                targets |-> <<>> ] >>
    /\ InitLocals

SpecOrder == InitOrder /\ [][Next]_vars

----------------------------------------------------------------------------
(* Properties *)

\* the cotisations of a [branche, bucket] pair; none when the bucket is undefined
BucketOf(entry) == IF Len(entry) >= 2 THEN entry[2] ELSE <<>>

\* where, in a grouped result, the cotisation of a dotted name sits
PlacesOf(grouped, dottedName) ==
    {<<i, j>> \in (1..Len(grouped)) \X (1..MaxVars + MaxOrderVars) :
        /\ j <= Len(BucketOf(grouped[i]))
        /\ BucketOf(grouped[i])[j].lien = <<"/règle/">> \o encodeRuleName(dottedName)}

\* the sum of the nodeValues of the variables of that name borne by the
\* employee (salarie = TRUE) or by the employer (salarie = FALSE)
RECURSIVE ShareSum(_, _, _)
ShareSum(vs, dottedName, salarie) ==
    IF Len(vs) = 0 THEN 0
    ELSE (IF Head(vs).dottedName = dottedName
             /\ ((duParSelector(Head(vs)) = "salarié") <=> salarie)
          THEN Head(vs).nodeValue ELSE 0)
         + ShareSum(Tail(vs), dottedName, salarie)

NamesOf(vs) == {vs[i].dottedName : i \in 1..Len(vs)}

\* C1: every returned payslip has exactly 7 cotisations entries, whose first
\* components are the branches of COTISATION_BRANCHE_ORDER in that order,
\* whatever contributions the analysis holds
C1_BrancheCompleteness ==
    fiche # <<>> =>
        /\ Len(fiche[1].cotisations) = 7
        /\ \A i \in 1..7 : fiche[1].cotisations[i][1] = COTISATION_BRANCHE_ORDER[i]

C1_Witness ==
    /\ fiche # <<>>
    /\ variables = <<>>
    /\ Len(fiche[1].cotisations) = 7

\* C2 (as claimed): a branch that received no surviving contribution is paired
\* with a present, empty sequence
C2_EmptyBucketIsEmptySequence ==
    cotisations # <<>> =>
        \A i \in 1..Len(cotisations) :
            (\A k \in 1..Len(fusionnees) :
                (fusionnees[k].montant.partPatronale = 0
                    /\ fusionnees[k].montant.partSalariale = 0)
                \/ fusionnees[k].branche # cotisations[i][1])
            => (Len(cotisations[i]) = 2 /\ cotisations[i][2] = <<>>)

\* C3: every cotisation in a bucket of the returned payslip has a non-zero
\* share, and a dotted name whose shares sum to 0 on both sides is in no bucket
C3_ZeroFiltering ==
    fiche # <<>> =>
        /\ \A i \in 1..Len(fiche[1].cotisations) :
             \A j \in 1..Len(BucketOf(fiche[1].cotisations[i])) :
                LET c == BucketOf(fiche[1].cotisations[i])[j]
                IN  c.montant.partSalariale # 0 \/ c.montant.partPatronale # 0
        /\ \A d \in NamesOf(variables) :
             (ShareSum(variables, d, TRUE) = 0 /\ ShareSum(variables, d, FALSE) = 0)
             => PlacesOf(fiche[1].cotisations, d) = {}

\* two non-zero variables of one name and one payer cancel: no bucket holds it
C3_Witness ==
    /\ fiche # <<>>
    /\ Len(variables) = 2
    /\ variables[1].dottedName = variables[2].dottedName
    /\ variables[1].nodeValue = 1
    /\ variables[2].nodeValue = -1
    /\ duParSelector(variables[1]) = duParSelector(variables[2])
    /\ \A i \in 1..7 : BucketOf(fiche[1].cotisations[i]) = <<>>

\* C4: the variables of one dotted name are merged into one cotisation (one
\* merged record per name, at most one place in the buckets), whose
\* partSalariale is the sum of the employee-borne nodeValues and whose
\* partPatronale is the sum of the employer-borne ones
C4_MergeAdditivity ==
    fiche # <<>> =>
        /\ Len(fusionnees) = Cardinality(NamesOf(variables))
        /\ \A d \in NamesOf(variables) :
            /\ \E k \in 1..Len(fusionnees) :
                /\ fusionnees[k].lien = <<"/règle/">> \o encodeRuleName(d)
                /\ fusionnees[k].montant =
                      [ partSalariale |-> ShareSum(variables, d, TRUE),
                        partPatronale |-> ShareSum(variables, d, FALSE) ]
            /\ Cardinality(PlacesOf(fiche[1].cotisations, d)) <= 1
            /\ \A pl \in PlacesOf(fiche[1].cotisations, d) :
                  BucketOf(fiche[1].cotisations[pl[1]])[pl[2]].montant =
                      [ partSalariale |-> ShareSum(variables, d, TRUE),
                        partPatronale |-> ShareSum(variables, d, FALSE) ]

\* one name, an employee-borne and an employer-borne variable: one cotisation
\* carrying both shares
C4_Witness ==
    /\ fiche # <<>>
    /\ Len(variables) = 2
    /\ variables[1].dottedName = V1 /\ variables[2].dottedName = V1
    /\ duParSelector(variables[1]) = "salarié" /\ variables[1].nodeValue = 1
    /\ duParSelector(variables[2]) = "employeur" /\ variables[2].nodeValue = -1
    /\ \E pl \in PlacesOf(fiche[1].cotisations, V1) :
          BucketOf(fiche[1].cotisations[pl[1]])[pl[2]].montant =
              [partSalariale |-> 1, partPatronale |-> -1]

\* the amount resolved for a field of analysisToFicheDePaie
Amount(field) == montants[FieldIndex(field)].montant

\* C5: in every returned payslip, totalCotisations.partPatronale is the
\* resolved employer aggregate minus the resolved reductions, and
\* totalCotisations.partSalariale is the resolved employee aggregate unchanged
C5_Totals ==
    fiche # <<>> =>
        /\ fiche[1].totalCotisations.partPatronale =
              Amount("cotisationsPatronales") - Amount("réductionsDeCotisations")
        /\ fiche[1].totalCotisations.partSalariale = Amount("cotisationsSalariales")
        /\ DOMAIN fiche[1].totalCotisations = {"partPatronale", "partSalariale"}

\* the totals of the spec's scenario: 100 - 15 and 40, with a filled bucket
C5_Witness ==
    /\ fiche # <<>>
    /\ Amount("cotisationsPatronales") = 100
    /\ Amount("réductionsDeCotisations") = 15
    /\ Amount("cotisationsSalariales") = 40
    /\ fiche[1].totalCotisations = [partSalariale |-> 40, partPatronale |-> 85]
    /\ \E i \in 1..7 : BucketOf(fiche[1].cotisations[i]) # <<>>

\* C6 (as claimed, for a present analysis): with no catalog the call ends
\* with MissingRuleCatalog, and no amount has been looked up in the analysis
\* before that
C6_FailFastOnMissingCatalog ==
    (flatRules = Null /\ analysis # Null) =>
        /\ pc # "done"
        /\ pc = "thrown" => (error.kind = "MissingRuleCatalog" /\ lookups = <<>>)

\* C7 (as claimed): when the catalog is present and lacks the requested name,
\* the call ends with RuleNotFound(that name)
C7_RuleNotFound ==
    (/\ pc = "thrown"
     /\ flatRules # Null
     /\ requested # <<>>
     /\ requested[Len(requested)] \notin DOMAIN flatRules[1])
    => error = [kind |-> "RuleNotFound", dottedName |-> requested[Len(requested)]]

\* C8 (as claimed): with no analysis the call ends with MissingAnalysis and
\* returns nothing
C8_MissingAnalysis ==
    analysis = Null =>
        /\ pc # "done"
        /\ pc = "thrown" => error.kind = "MissingAnalysis"

\* whether the analysis holds the name, in its cache or among its targets
InCache(a, dottedName) == dottedName \in DOMAIN a.cache
InTargets(a, dottedName) == \E k \in 1..Len(a.targets) : a.targets[k].dottedName = dottedName

\* the amount the analysis gives a name: the cache node's, else the first
\* matching target's; 0 when the node has no value
ExpectedAmount(a, dottedName) ==
    LET node == IF InCache(a, dottedName) THEN a.cache[dottedName]
                ELSE a.targets[CHOOSE k \in 1..Len(a.targets) :
                        /\ a.targets[k].dottedName = dottedName
                        /\ \A j \in 1..(k - 1) : a.targets[j].dottedName # dottedName]
    IN  IF "nodeValue" \in DOMAIN node THEN node.nodeValue ELSE 0

\* C9: for a present analysis, each resolved amount is the cache node's value
\* when the cache has the name, else the first matching target's, 0 when the
\* node has no value; the resolution throws RuleNotFoundInAnalysis(name)
\* exactly when neither the cache nor the targets have the name
C9_AmountResolution ==
    analysis # Null =>
        /\ \A i \in 1..Len(montants) :
            /\ InCache(analysis[1], MontantCalls[i].dottedName)
                  \/ InTargets(analysis[1], MontantCalls[i].dottedName)
            /\ montants[i].montant = ExpectedAmount(analysis[1], MontantCalls[i].dottedName)
        /\ (pc = "thrown" /\ Len(lookups) = Len(montants) + 1) =>
              LET dottedName == lookups[Len(lookups)]
              IN  /\ dottedName = MontantCalls[Len(lookups)].dottedName
                  /\ (error.kind = "RuleNotFoundInAnalysis")
                        <=> (~InCache(analysis[1], dottedName)
                                /\ ~InTargets(analysis[1], dottedName))
                  /\ error.kind = "RuleNotFoundInAnalysis" => error.dottedName = dottedName

\* the cache wins over a target of the same name and its missing value reads
\* as 0; the reductions, absent from the cache, come from the targets
C9_Witness ==
    /\ analysis # Null
    /\ pc = "total"
    /\ InCache(analysis[1], SALARIALES)
    /\ "nodeValue" \notin DOMAIN analysis[1].cache[SALARIALES]
    /\ ~InCache(analysis[1], REDUCTIONS)
    /\ analysis[1].targets = << [dottedName |-> SALARIALES, nodeValue |-> 7],
                                [dottedName |-> REDUCTIONS, nodeValue |-> 7] >>
    /\ Amount("cotisationsSalariales") = 0
    /\ Amount("réductionsDeCotisations") = 7

\* the first defined dû par of a variable, read key by key
PayerOf(v) ==
    IF "dû par" \in DOMAIN v.cotisation THEN v.cotisation["dû par"]
    ELSE IF "taxe" \in DOMAIN v /\ "dû par" \in DOMAIN v.taxe THEN v.taxe["dû par"]
    ELSE IF "dû par" \in DOMAIN v.explanation.cotisation
         THEN v.explanation.cotisation["dû par"]
    ELSE IF "dû par" \in DOMAIN v.explanation.taxe THEN v.explanation.taxe["dû par"]
    ELSE Undefined

\* C10: the nodeValue of a variable goes to partSalariale exactly when the
\* first defined dû par (cotisation, taxe, explanation.cotisation,
\* explanation.taxe, in that order) is 'salarié', to partPatronale otherwise,
\* also when none is defined; the other share is 0
C10_PayerAttribution ==
    (pc # "cotisations" /\ Len(variables) = 1) =>
        /\ Len(fusionnees) = 1
        /\ fusionnees[1].montant =
              IF PayerOf(variables[1]) = "salarié"
              THEN [partSalariale |-> variables[1].nodeValue, partPatronale |-> 0]
              ELSE [partSalariale |-> 0, partPatronale |-> variables[1].nodeValue]

\* an earlier path names the employer, a later one the employee: the
\* employer share gets the value
C10_Witness ==
    /\ pc # "cotisations"
    /\ Len(variables) = 1
    /\ "dû par" \notin DOMAIN variables[1].cotisation
    /\ "taxe" \in DOMAIN variables[1]
    /\ "dû par" \in DOMAIN variables[1].taxe
    /\ variables[1].taxe["dû par"] = "employeur"
    /\ "dû par" \in DOMAIN variables[1].explanation.taxe
    /\ variables[1].explanation.taxe["dû par"] = "salarié"
    /\ variables[1].nodeValue = 2
    /\ fusionnees[1].montant = [partSalariale |-> 0, partPatronale |-> 2]

\* the first defined branche of a variable, read key by key; autres when none
BrancheOf(v) ==
    IF "branche" \in DOMAIN v.cotisation THEN v.cotisation.branche
    ELSE IF "taxe" \in DOMAIN v /\ "branche" \in DOMAIN v.taxe THEN v.taxe.branche
    ELSE IF "branche" \in DOMAIN v.explanation.cotisation
         THEN v.explanation.cotisation.branche
    ELSE IF "branche" \in DOMAIN v.explanation.taxe THEN v.explanation.taxe.branche
    ELSE "autres"

\* C11: a variable is classified under the first defined branche among
\* cotisation, taxe, explanation.cotisation, explanation.taxe, in that order;
\* with only explanation.taxe.branche = 'logement' it is under logement, and
\* with none of the four it is under autres
C11_BrancheFallback ==
    (pc # "cotisations" /\ Len(variables) = 1) =>
        /\ Len(fusionnees) = 1
        /\ fusionnees[1].branche = BrancheOf(variables[1])
        /\ (\A i \in 1..3 : path(BranchePaths[i], variables[1]) = Undefined) =>
              fusionnees[1].branche =
                  IF "branche" \in DOMAIN variables[1].explanation.taxe
                  THEN variables[1].explanation.taxe.branche ELSE "autres"

\* no direct branche, explanation.taxe.branche = 'logement': the returned
\* payslip holds the cotisation in the logement bucket
C11_Witness ==
    /\ fiche # <<>>
    /\ Len(variables) = 1
    /\ "branche" \notin DOMAIN variables[1].cotisation
    /\ "taxe" \notin DOMAIN variables[1]
    /\ "branche" \notin DOMAIN variables[1].explanation.cotisation
    /\ "branche" \in DOMAIN variables[1].explanation.taxe
    /\ variables[1].explanation.taxe.branche = "logement"
    /\ fusionnees[1].branche = "logement"
    /\ \E i \in 1..7 :
          /\ fiche[1].cotisations[i][1] = "logement"
          /\ Len(BucketOf(fiche[1].cotisations[i])) = 1

\* the children of an aggregate, read from the analysis key by key
ChildrenOf(a, aggregate) ==
    IF /\ aggregate \in DOMAIN a.cache
       /\ "explanation" \in DOMAIN a.cache[aggregate]
    THEN a.cache[aggregate].explanation.formule.explanation.explanation
    ELSE <<>>

\* extraction order: the employee aggregate's children, then the employer's
ExtractionOrder(a) == ChildrenOf(a, SALARIALES) \o ChildrenOf(a, PATRONALES)

\* the last variable of that name in a sequence
LastOf(vs, dottedName) ==
    vs[CHOOSE i \in 1..Len(vs) :
        /\ vs[i].dottedName = dottedName
        /\ \A j \in (i + 1)..Len(vs) : vs[j].dottedName # dottedName]

\* the names carried by several variables that resolve to different branches
MixedNames(vs) ==
    {d \in NamesOf(vs) :
        \E i, j \in 1..Len(vs) :
            /\ vs[i].dottedName = d /\ vs[j].dottedName = d
            /\ BrancheOf(vs[i]) # BrancheOf(vs[j])}

\* the merged record of a name carries the branch, label and link of the
\* last variable of that name in extraction order
CarriesLast(a, d) ==
    \E k \in 1..Len(fusionnees) :
        /\ fusionnees[k].lien = <<"/règle/">> \o encodeRuleName(d)
        /\ fusionnees[k].branche = BrancheOf(LastOf(ExtractionOrder(a), d))
        /\ fusionnees[k].nom =
              (IF "titre" \in DOMAIN flatRules[1][d]
               THEN flatRules[1][d].titre ELSE flatRules[1][d].nom)
        /\ \A k2 \in 1..Len(fusionnees) : fusionnees[k2].lien = fusionnees[k].lien => k2 = k

\* every place of the name in the grouped result is in the bucket of the
\* last variable's branch
InBucketOfLast(a, grouped, d) ==
    \A pl \in PlacesOf(grouped, d) :
        grouped[pl[1]][1] = BrancheOf(LastOf(ExtractionOrder(a), d))

\* C12 (as claimed): a name whose variables resolve to different branches is
\* merged under the branch, label and link of its last variable in
\* extraction order, and sits in exactly one bucket, that branch's
C12_LastBrancheExactlyOneBucket ==
    fiche # <<>> =>
        /\ variables = ExtractionOrder(analysis[1])
        /\ \A d \in MixedNames(variables) :
            /\ CarriesLast(analysis[1], d)
            /\ InBucketOfLast(analysis[1], fiche[1].cotisations, d)
            /\ Cardinality(PlacesOf(fiche[1].cotisations, d)) = 1

\* C12 (amended): as claimed, but the merged cotisation sits in exactly one
\* bucket only when one of its merged shares is not 0; when both are 0 it is
\* in no bucket
C12_LastBrancheOneBucketUnlessZero ==
    fiche # <<>> =>
        /\ variables = ExtractionOrder(analysis[1])
        /\ \A d \in MixedNames(variables) :
            /\ CarriesLast(analysis[1], d)
            /\ InBucketOfLast(analysis[1], fiche[1].cotisations, d)
            /\ Cardinality(PlacesOf(fiche[1].cotisations, d)) =
                  IF ShareSum(variables, d, TRUE) = 0 /\ ShareSum(variables, d, FALSE) = 0
                  THEN 0 ELSE 1

\* an employee-side child without branche (autres), then an employer-side
\* child of the same name under retraite: one cotisation, in the retraite bucket
C12_Witness ==
    /\ fiche # <<>>
    /\ Len(ChildrenOf(analysis[1], SALARIALES)) = 1
    /\ Len(ChildrenOf(analysis[1], PATRONALES)) = 1
    /\ variables[1].dottedName = V1 /\ variables[2].dottedName = V1
    /\ BrancheOf(variables[1]) = "autres"
    /\ BrancheOf(variables[2]) = "retraite"
    /\ variables[1].nodeValue = 1 /\ variables[2].nodeValue = 1
    /\ PlacesOf(fiche[1].cotisations, V1) = {<<3, 1>>}
    /\ fiche[1].cotisations[3][1] = "retraite"
    /\ fiche[1].cotisations[3][2][1].nom = "Vieillesse"
    /\ BucketOf(fiche[1].cotisations[7]) = <<>>

\* the index at which a dotted name first occurs in a sequence of variables
FirstOccurrence(vs, dottedName) ==
    CHOOSE i \in 1..Len(vs) :
        /\ vs[i].dottedName = dottedName
        /\ \A j \in 1..(i - 1) : vs[j].dottedName # dottedName

\* the dotted name a cotisation of a bucket was merged from
NameOf(vs, cotisation) ==
    CHOOSE d \in NamesOf(vs) : cotisation.lien = <<"/règle/">> \o encodeRuleName(d)

\* C13: within each bucket of the grouped result the cotisations are in the
\* reverse of the order in which their dotted names first occur in the
\* extracted variables: of two cotisations of one bucket, the one whose name
\* occurs first comes last
C13_BucketsReverseExtractionOrder ==
    (cotisations # <<>> /\ error.kind = "none") =>
        \A i \in 1..Len(cotisations) :
            LET bucket == BucketOf(cotisations[i])
            IN  \A j, k \in 1..Len(bucket) :
                    j < k =>
                        FirstOccurrence(variables, NameOf(variables, bucket[j]))
                            > FirstOccurrence(variables, NameOf(variables, bucket[k]))

\* three names under retraite, extracted V1, V2, V3: the returned bucket
\* holds the cotisations of V3, V2, V1, in that order
C13_Witness ==
    /\ fiche # <<>>
    /\ Len(variables) = 3
    /\ variables[1].dottedName = V1
    /\ variables[2].dottedName = V2
    /\ variables[3].dottedName = V3
    /\ Len(BucketOf(fiche[1].cotisations[3])) = 3
    /\ fiche[1].cotisations[3][2][1].lien = <<"/règle/">> \o encodeRuleName(V3)
    /\ fiche[1].cotisations[3][2][2].lien = <<"/règle/">> \o encodeRuleName(V2)
    /\ fiche[1].cotisations[3][2][3].lien = <<"/règle/">> \o encodeRuleName(V1)

====
